---- MODULE Spec2Model ----
(***************************************************************************)
(* State-machine model of fritzcollectd (src/fritzcollectd.py) and of its  *)
(* configuration loader (src/config.py).                                    *)
(*                                                                          *)
(* Python values are modelled as follows.  None is the record None for a   *)
(* connection and the string "None" for a string-valued attribute.  A raw  *)
(* or converted value is a record [kind, s, n, d]: a str s, an int n, or a *)
(* float n/d.  A dict is a sequence of [key, val] entries in insertion      *)
(* order.  The remote device (fritzconnection) and the sink (influxdb) are *)
(* outside the repository; the remote's answers are drawn from small sets. *)
(*                                                                          *)
(* The callbacks are the entry points of the module.  The script at the    *)
(* end of the file calls callback_configure, callback_init, callback_read  *)
(* and callback_shutdown once, in that order; an orchestration loop calls  *)
(* callback_init and callback_read again and again.  The model lets the    *)
(* caller call the callbacks in any order once callback_configure has run, *)
(* records in exc the exception that escaped the last callback, and lets   *)
(* the caller go on after it.                                               *)
(***************************************************************************)
EXTENDS Integers, Sequences, FiniteSets, TLC

\* Bounds of the model.
MaxIndex == 3     \* enumeration indexes >= MaxIndex are represented by MaxIndex
MaxRaw == 300     \* largest number a raw string value is parsed to
MaxName == 7      \* largest enumeration index an instance identifier is built from

VARIABLES
    CONFIGS,               \* module-level list of FritzCollectd objects
    SERVICE_ACTIONS,       \* class attribute FritzCollectd.SERVICE_ACTIONS
    SERVICE_ACTIONS_AUTH,  \* class attribute FritzCollectd.SERVICE_ACTIONS_AUTH
    pc,                    \* position of the host: boot, idle, init, read, reconnect
    cur,                   \* position of the callback's loop over CONFIGS
    phase,                 \* read(): which _read_data call is running
    pos,                   \* _read_data: position of the for loop in service_actions
    index,                 \* _read_data: the local variable index
    values,                \* _read_data: the local dict values
    read_values,           \* read(): the local values, the dict _read_data returned
    influx_data,           \* read(): the local influx_data[0]
    influxdb,              \* the sink: batches written during the current callback
    exc,                   \* exception that escaped the last callback ("" if none)
    lastInit,              \* outcome of the last call of init()
    lastCall,              \* last call_action made by _read_data
    lastPoll,              \* result of the last enumeration finished by _read_data
    tick,                  \* parity of the number of call_action calls of the running read()
    config_file,           \* the file at CONFIG_PATH as callback_configure found it
    args,                  \* a function of the module is called on its own: the arguments
    ret                    \* ... and what it returned

vars == <<CONFIGS, SERVICE_ACTIONS, SERVICE_ACTIONS_AUTH, pc, cur, phase, pos,
          index, values, read_values, influx_data, influxdb, exc, lastInit, lastCall,
          lastPoll, tick, config_file, args, ret>>

----------------------------------------------------------------------------
\* Python values.

None == [isNone |-> TRUE]
PyStr(s) == [kind |-> "str", s |-> s, n |-> 0, d |-> 1]
PyInt(n) == [kind |-> "int", s |-> "", n |-> n, d |-> 1]
PyFloat(n, d) == [kind |-> "float", s |-> "", n |-> n, d |-> d]
ValueError == [kind |-> "ValueError", s |-> "", n |-> 0, d |-> 1]

\* Truth value of a string-valued attribute (None and '' are false).
Truthy(x) == x # "None" /\ x # ""

\* str.format of one value with '{}'.
Format(v) ==
    CASE v.kind = "str" -> v.s
      [] v.kind = "int" -> ToString(v.n)
      [] OTHER -> ToString(v.n) \o "/" \o ToString(v.d)

\* The position of key in a dict kept as a sequence of entries in insertion
\* order (0 if absent)
DictFind(dict, key) ==
    IF \E j \in 1..Len(dict) : dict[j].key = key
    THEN CHOOSE j \in 1..Len(dict) : dict[j].key = key
    ELSE 0

\* dict.update(other): a key of dict keeps its place and takes the value of
\* other; the new keys follow in the order of other.
DictUpdate(dict, other) ==
    [j \in 1..Len(dict) |->
        IF DictFind(other, dict[j].key) # 0
        THEN other[DictFind(other, dict[j].key)]
        ELSE dict[j]]
    \o SelectSeq(other, LAMBDA e : DictFind(dict, e.key) = 0)

DictKeys(dict) == {dict[j].key : j \in 1..Len(dict)}

----------------------------------------------------------------------------
\* The schema (class attributes of FritzCollectd).

PLUGIN_NAME == "fritzbox"

ServiceAction(service, action, index_field, instance_field, instance_prefix) ==
    [service |-> service, action |-> action, index_field |-> index_field,
     instance_field |-> instance_field, instance_prefix |-> instance_prefix]

\* ServiceAction.__new__.__defaults__ = (None, None, None)
ServiceAction2(service, action) ==
    ServiceAction(service, action, "None", "None", "None")

Value(value_instance, value_type) ==
    [value_instance |-> value_instance, value_type |-> value_type]

Arg(action_argument, value) == [key |-> action_argument, val |-> value]

Entry(service_action, arguments) == [key |-> service_action, val |-> arguments]

SERVICE_ACTIONS_0 == <<
    Entry(ServiceAction2("WANIPConnection:1", "GetStatusInfo"),
          << Arg("NewConnectionStatus", Value("constatus", "gauge")),
             Arg("NewUptime", Value("uptime", "uptime")) >>),
    Entry(ServiceAction2("WANCommonInterfaceConfig:1", "GetCommonLinkProperties"),
          << Arg("NewPhysicalLinkStatus", Value("dslstatus", "gauge")),
             Arg("NewLayer1DownstreamMaxBitRate", Value("downstreammax", "bitrate")),
             Arg("NewLayer1UpstreamMaxBitRate", Value("upstreammax", "bitrate")) >>),
    Entry(ServiceAction2("WANCommonInterfaceConfig:1", "GetAddonInfos"),
          << Arg("NewByteSendRate", Value("sendrate", "bitrate")),
             Arg("NewByteReceiveRate", Value("receiverate", "bitrate")),
             Arg("NewTotalBytesSent", Value("totalbytessent", "bytes")),
             Arg("NewTotalBytesReceived", Value("totalbytesreceived", "bytes")) >>) >>

SERVICE_ACTIONS_AUTH_0 == <<
    Entry(ServiceAction2("LANEthernetInterfaceConfig:1", "GetStatistics"),
          << Arg("NewBytesSent", Value("lan_totalbytessent", "bytes")),
             Arg("NewBytesReceived", Value("lan_totalbytesreceived", "bytes")) >>),
    Entry(ServiceAction("X_AVM-DE_Homeauto:1", "GetGenericDeviceInfos",
                        "NewIndex", "NewIndex", "dect"),
          << Arg("NewMultimeterPower", Value("power", "power")),
             Arg("NewMultimeterEnergy", Value("energy", "power")),
             Arg("NewTemperatureCelsius", Value("temperature", "temperature")),
             Arg("NewSwitchState", Value("switchstate", "gauge")) >>),
    Entry(ServiceAction2("DeviceInfo:1", "GetInfo"),
          << Arg("NewUpTime", Value("boxuptime", "uptime")) >>) >>

\* The (service, action) pair by which actionnames lists an operation.
Pair(service_action) == <<service_action.service, service_action.action>>

BaselinePair == <<"WANIPConnection:1", "GetStatusInfo">>

----------------------------------------------------------------------------
\* The value conversion (class attribute CONVERSION).

\* str(n) for the numbers a raw string is parsed to
Numerals == [n \in 0..MaxRaw |-> ToString(n)]

\* float(x)
ToFloat(x) ==
    CASE x.kind = "int" -> PyFloat(x.n, 1)
      [] x.kind = "float" -> x
      [] x.kind = "str" ->
            IF \E n \in 0..MaxRaw : Numerals[n] = x.s
            THEN PyFloat(CHOOSE n \in 0..MaxRaw : Numerals[n] = x.s, 1)
            ELSE ValueError
      [] OTHER -> ValueError

\* float(x) / k
FloatDiv(x, k) ==
    LET f == ToFloat(x) IN
    IF f.kind = "float" THEN PyFloat(f.n, f.d * k) ELSE ValueError

\* 8 * x: a product for a number, a repetition for a str
Times8(x) ==
    CASE x.kind = "int" -> PyInt(8 * x.n)
      [] x.kind = "float" -> PyFloat(8 * x.n, x.d)
      [] x.kind = "str" ->
            PyStr(x.s \o x.s \o x.s \o x.s \o x.s \o x.s \o x.s \o x.s)
      [] OTHER -> ValueError

\* A plausible slip: every str is taken for the expected one.
IsStr_AnyStr(x, s) == x.kind = "str"

\* x == s, for a str literal s
IsStr(x, s) == x.kind = "str" /\ x.s = s

\* CONVERSION.get(action_argument, lambda x: x)(x)
CONVERSION(action_argument, x) ==
    CASE action_argument = "NewPhysicalLinkStatus" ->
            IF IsStr(x, "Up") THEN PyInt(1) ELSE PyInt(0)
      [] action_argument = "NewConnectionStatus" ->
            IF IsStr(x, "Connected") THEN PyInt(1) ELSE PyInt(0)
      [] action_argument = "NewByteSendRate" -> Times8(x)
      [] action_argument = "NewByteReceiveRate" -> Times8(x)
      [] action_argument = "NewTemperatureCelsius" -> FloatDiv(x, 10)
      [] action_argument = "NewSwitchState" ->
            IF IsStr(x, "ON") THEN PyInt(1) ELSE PyInt(0)
      [] action_argument = "NewMultimeterEnergy" -> FloatDiv(x, 1000)
      [] action_argument = "NewMultimeterPower" -> FloatDiv(x, 100)
      [] OTHER -> x

----------------------------------------------------------------------------
\* The remote device, as seen through fritzconnection.

AllPairs ==
    {Pair(SERVICE_ACTIONS_0[j].key) : j \in 1..Len(SERVICE_ACTIONS_0)} \cup
    {Pair(SERVICE_ACTIONS_AUTH_0[j].key) : j \in 1..Len(SERVICE_ACTIONS_AUTH_0)}

\* The operation sets (actionnames) a reachable device may advertise.
AdvertisedSets ==
    { AllPairs,
      {BaselinePair},
      AllPairs \ {<<"WANCommonInterfaceConfig:1", "GetAddonInfos">>,
                  <<"DeviceInfo:1", "GetInfo">>} }

\* fritzconnection.FritzConnection(address, port, user[, password]): a new
\* connection object.  An unreachable device leaves modelname None and no
\* operation known.  stale tells a connection that has raised XMLSyntaxError
\* from the new connection that replaces it.
FritzConnection(reachable, actionnames, password) ==
    [isNone |-> FALSE,
     stale |-> FALSE,
     modelname |-> IF reachable THEN "FRITZ!Box" ELSE "None",
     actionnames |-> IF reachable THEN actionnames ELSE {},
     password |-> password]

\* The non-empty ReadingSets the remote may answer to an operation: one
\* well-formed set for each operation, a set of GetStatistics that lacks
\* NewBytesReceived, and a set of GetGenericDeviceInfos whose temperature is
\* not a number.  The home-automation devices at the odd indexes are
\* switched off.
ReadingSets(service_action, parameters) ==
    CASE service_action.action = "GetStatusInfo" ->
            { ("NewConnectionStatus" :> PyStr("Connected")) @@
              ("NewUptime" :> PyInt(100)) }
      [] service_action.action = "GetCommonLinkProperties" ->
            { ("NewPhysicalLinkStatus" :> PyStr("Up")) @@
              ("NewLayer1DownstreamMaxBitRate" :> PyInt(50)) @@
              ("NewLayer1UpstreamMaxBitRate" :> PyInt(10)) }
      [] service_action.action = "GetAddonInfos" ->
            { ("NewByteSendRate" :> PyInt(100)) @@
              ("NewByteReceiveRate" :> PyInt(200)) @@
              ("NewTotalBytesSent" :> PyInt(7)) @@
              ("NewTotalBytesReceived" :> PyInt(9)) }
      [] service_action.action = "GetStatistics" ->
            { ("NewBytesSent" :> PyInt(3)) @@ ("NewBytesReceived" :> PyInt(4)),
              ("NewBytesSent" :> PyInt(3)) }
      [] service_action.action = "GetGenericDeviceInfos" ->
            { IF parameters["NewIndex"].n % 2 = 0
              THEN ("NewMultimeterPower" :> PyInt(1250)) @@
                   ("NewMultimeterEnergy" :> PyInt(3000)) @@
                   ("NewTemperatureCelsius" :> PyStr("215")) @@
                   ("NewSwitchState" :> PyStr("ON"))
              ELSE ("NewMultimeterPower" :> PyInt(0)) @@
                   ("NewMultimeterEnergy" :> PyInt(3000)) @@
                   ("NewTemperatureCelsius" :> PyStr("215")) @@
                   ("NewSwitchState" :> PyStr("OFF")),
              ("NewMultimeterPower" :> PyInt(1250)) @@
              ("NewMultimeterEnergy" :> PyInt(3000)) @@
              ("NewTemperatureCelsius" :> PyStr("abc")) @@
              ("NewSwitchState" :> PyStr("ON")) }
      [] OTHER ->
            { ("NewUpTime" :> PyInt(100)) }

\* What connection.call_action(service, action, **parameters) may do: return a
\* ReadingSet, return nothing, or raise XMLSyntaxError.  An operation the
\* connection does not advertise returns no ReadingSet.
call_action(connection, service_action, parameters) ==
    (IF Pair(service_action) \in connection.actionnames
     THEN {[kind |-> "readings", readings |-> r] : r \in ReadingSets(service_action, parameters)}
     ELSE {})
    \cup {[kind |-> "empty", readings |-> <<>>],
          [kind |-> "XMLSyntaxError", readings |-> <<>>]}

----------------------------------------------------------------------------
\* FritzCollectd

\* FritzCollectd.__init__(**node)
FritzCollectd(node) ==
    [_fritz_password |-> node.password,
     _fritz_hostname |-> node.hostname,
     _plugin_instance |-> node.plugin_instance,
     _fc |-> None,
     _fc_auth |-> None]

\* A plausible slip: the first entry is deleted, whatever the key.
DictDel_First(dict, key) == Tail(dict)

\* del service_actions[service_action]
DictDel(dict, key) == SelectSeq(dict, LAMBDA e : e.key # key)

RECURSIVE FilterKeys(_, _, _)
\* the loop of _filter_service_actions over list(service_actions.keys())
FilterKeys(service_actions, keys, actionnames) ==
    IF keys = <<>> THEN service_actions
    ELSE FilterKeys(IF Pair(Head(keys)) \notin actionnames
                    THEN DictDel(service_actions, Head(keys))
                    ELSE service_actions,
                    Tail(keys), actionnames)

\* FritzCollectd._filter_service_actions(service_actions, actionnames): the
\* dict left in the class attribute
_filter_service_actions(service_actions, actionnames) ==
    FilterKeys(service_actions,
               [j \in 1..Len(service_actions) |-> service_actions[j].key],
               actionnames)

\* What the remote does during one call of init(): whether each connection
\* reaches the device, what it advertises, and the answer to each probe.
Remote(reachable, actionnames, probe, auth_reachable, auth_actionnames, auth_probe) ==
    [reachable |-> reachable, actionnames |-> actionnames, probe |-> probe,
     auth_reachable |-> auth_reachable, auth_actionnames |-> auth_actionnames,
     auth_probe |-> auth_probe]

\* The remote behaviours init() can tell apart: what follows the step that
\* fails is never looked at, and a probe's ReadingSet is only tested for
\* being empty (non-authenticated probe) or not at all (authenticated probe).
InitRemotes ==
    { Remote(FALSE, {}, "empty", FALSE, {}, "empty") } \cup
    { Remote(TRUE, a, p, FALSE, {}, "empty") :
        a \in AdvertisedSets, p \in {"empty", "XMLSyntaxError"} } \cup
    { Remote(TRUE, a, "readings", TRUE, aa, ap) :
        a \in AdvertisedSets, aa \in AdvertisedSets,
        ap \in {"readings", "XMLSyntaxError"} } \cup
    { Remote(TRUE, a, "readings", FALSE, {}, ap) :
        a \in AdvertisedSets, ap \in {"empty", "XMLSyntaxError"} }

\* A plausible slip: an authentication failure only gives up the
\* authenticated connection.
init_except_KeepsFc(self, sa, sa_auth) ==
    [self |-> [self EXCEPT !._fc_auth = None], sa |-> sa, sa_auth |-> sa_auth,
     raised |-> "", outcome |-> "AuthenticationFailure"]

\* The except clause of init(): the authenticated probe raised XMLSyntaxError
init_except(self, sa, sa_auth) ==
    [self |-> [self EXCEPT !._fc = None, !._fc_auth = None],
     sa |-> sa, sa_auth |-> sa_auth,
     raised |-> "IOError", outcome |-> "AuthenticationFailure"]

\* FritzCollectd.init(self) with the class attributes sa, sa_auth: the object
\* and class attributes it leaves, and the exception it raises ("" if none).
init(self, sa, sa_auth, remote) ==
    LET fc == FritzConnection(remote.reachable, remote.actionnames, "")
        fc_auth == FritzConnection(remote.auth_reachable,
                                   remote.auth_actionnames, self._fritz_password)
        probe == IF BaselinePair \in fc.actionnames \/ remote.probe # "readings"
                 THEN remote.probe ELSE "empty"
        sa1 == _filter_service_actions(sa, fc.actionnames)
    IN
    IF fc.modelname = "None" THEN
        [self |-> [self EXCEPT !._fc = None], sa |-> sa, sa_auth |-> sa_auth,
         raised |-> "IOError", outcome |-> "Unreachable"]
    ELSE IF probe = "XMLSyntaxError" THEN
        [self |-> [self EXCEPT !._fc = fc], sa |-> sa, sa_auth |-> sa_auth,
         raised |-> "XMLSyntaxError", outcome |-> "InvalidData"]
    ELSE IF probe = "empty" THEN
        [self |-> [self EXCEPT !._fc = None], sa |-> sa, sa_auth |-> sa_auth,
         raised |-> "IOError", outcome |-> "UnsupportedBaseline"]
    ELSE IF self._fritz_password # "" THEN
        IF remote.auth_probe = "XMLSyntaxError" THEN
            init_except([self EXCEPT !._fc = fc, !._fc_auth = fc_auth],
                        sa1, sa_auth)
        ELSE
            [self |-> [self EXCEPT !._fc = fc, !._fc_auth = fc_auth],
             sa |-> sa1,
             sa_auth |-> _filter_service_actions(sa_auth, fc_auth.actionnames),
             raised |-> "", outcome |-> "ok"]
    ELSE
        [self |-> [self EXCEPT !._fc = fc], sa |-> sa1, sa_auth |-> sa_auth,
         raised |-> "", outcome |-> "ok"]

----------------------------------------------------------------------------
\* Configuration (src/config.py)

node1 == [password |-> "", hostname |-> "fritz.box", plugin_instance |-> ""]
node2 == [password |-> "secret", hostname |-> "box2", plugin_instance |-> "house"]

\* The states of the file at CONFIG_PATH: absent, not JSON, or a JSON object.
ConfigFiles ==
    { [exists |-> FALSE, json |-> FALSE, hosts |-> <<>>],
      [exists |-> TRUE, json |-> FALSE, hosts |-> <<>>] } \cup
    { [exists |-> TRUE, json |-> TRUE, hosts |-> h] :
        h \in { <<>>, <<node1>>, <<node2>>, <<node1, node2>> } }

\* The value None, as returned for a configuration
NoConfig == [isNone |-> TRUE, hosts |-> <<>>]

\* get_json_file(filepath)
get_json_file(file) ==
    IF ~file.exists THEN NoConfig
    ELSE IF ~file.json THEN NoConfig
    ELSE [isNone |-> FALSE, hosts |-> file.hosts]

\* Config().get()
Config_get(file) == get_json_file(file)

----------------------------------------------------------------------------
\* State

NoData == [host |-> "", fields |-> <<>>]
NoInit == [called |-> FALSE]
NoCall == [made |-> FALSE]
NoPoll == [done |-> FALSE]
NoFile == [read |-> FALSE]
NoArgs == [fn |-> ""]
NoRet == [done |-> FALSE]

Init ==
    /\ CONFIGS = <<>>
    /\ SERVICE_ACTIONS = SERVICE_ACTIONS_0
    /\ SERVICE_ACTIONS_AUTH = SERVICE_ACTIONS_AUTH_0
    /\ pc = "boot"
    /\ cur = 0
    /\ phase = ""
    /\ pos = 0
    /\ index = 0
    /\ values = <<>>
    /\ read_values = <<>>
    /\ influx_data = NoData
    /\ influxdb = <<>>
    /\ exc = ""
    /\ lastInit = NoInit
    /\ lastCall = NoCall
    /\ lastPoll = NoPoll
    /\ tick = FALSE
    /\ config_file = NoFile
    /\ args = NoArgs
    /\ ret = NoRet

\* No read() is running: its locals do not exist.
NoFrame ==
    /\ phase' = ""
    /\ pos' = 0
    /\ index' = 0
    /\ values' = <<>>
    /\ read_values' = <<>>
    /\ influx_data' = NoData
    /\ lastPoll' = NoPoll
    /\ tick' = FALSE

\* The callback returns, or an exception (raised) escapes it.
Return(raised) ==
    /\ pc' = "idle"
    /\ cur' = 0
    /\ exc' = raised
    /\ NoFrame

\* A plausible slip: influx_data is built without the host tag.
ReadNext_Untagged(i) ==
    IF i <= Len(CONFIGS)
    THEN /\ pc' = "read"
         /\ cur' = i
         /\ exc' = ""
         /\ phase' = "nonauth"
         /\ pos' = 1
         /\ index' = 0
         /\ values' = <<>>
         /\ read_values' = <<>>
         /\ influx_data' = NoData
         /\ lastPoll' = NoPoll
         /\ tick' = FALSE
    ELSE Return("")

\* callback_read's loop reaches CONFIGS[i]: read() starts with a new
\* influx_data, or the loop ends.
ReadNext(i) ==
    IF i <= Len(CONFIGS)
    THEN /\ pc' = "read"
         /\ cur' = i
         /\ exc' = ""
         /\ phase' = "nonauth"
         /\ pos' = 1
         /\ index' = 0
         /\ values' = <<>>
         /\ read_values' = <<>>
         /\ influx_data' = [host |-> CONFIGS[i]._fritz_hostname, fields |-> <<>>]
         /\ lastPoll' = NoPoll
         /\ tick' = FALSE
    ELSE Return("")

----------------------------------------------------------------------------
\* The callbacks

\* callback_configure()
callback_configure ==
    /\ pc = "boot"
    /\ \E file \in ConfigFiles :
        LET config == Config_get(file) IN
        /\ IF config.isNone
           THEN /\ CONFIGS' = CONFIGS
                /\ Return("TypeError")
           ELSE /\ CONFIGS' = CONFIGS \o
                    [j \in 1..Len(config.hosts) |-> FritzCollectd(config.hosts[j])]
                /\ Return("")
        /\ config_file' = [read |-> TRUE, exists |-> file.exists,
                            json |-> file.json]
    /\ UNCHANGED <<SERVICE_ACTIONS, SERVICE_ACTIONS_AUTH, influxdb,
                   lastInit, lastCall, args, ret>>

\* callback_init() is called: its loop starts
callback_init ==
    /\ pc = "idle"
    /\ IF CONFIGS = <<>> THEN Return("")
       ELSE /\ pc' = "init"
            /\ cur' = 1
            /\ exc' = ""
            /\ NoFrame
    /\ influxdb' = <<>>
    /\ lastInit' = NoInit
    /\ lastCall' = NoCall
    /\ UNCHANGED <<CONFIGS, SERVICE_ACTIONS, SERVICE_ACTIONS_AUTH, config_file, args, ret>>

\* The effect of config.init() for config = CONFIGS[cur]
DoInit(r) ==
    /\ CONFIGS' = [CONFIGS EXCEPT ![cur] = r.self]
    /\ SERVICE_ACTIONS' = r.sa
    /\ SERVICE_ACTIONS_AUTH' = r.sa_auth
    /\ lastInit' = [called |-> TRUE, collector |-> cur, raised |-> r.raised,
                    outcome |-> r.outcome,
                    reinit |-> (pc = "reconnect")]

\* One iteration of callback_init's loop: config.init()
callback_init_step ==
    /\ pc = "init"
    /\ \E remote \in InitRemotes :
        LET r == init(CONFIGS[cur], SERVICE_ACTIONS, SERVICE_ACTIONS_AUTH,
                      remote) IN
        /\ DoInit(r)
        /\ IF r.raised # "" THEN Return(r.raised)
           ELSE IF cur < Len(CONFIGS)
           THEN /\ cur' = cur + 1
                /\ UNCHANGED <<pc, exc, phase, pos, index, values, read_values,
                               influx_data, lastPoll, tick>>
           ELSE Return("")
    /\ UNCHANGED <<influxdb, lastCall, config_file, args, ret>>

\* callback_read(influxdb) is called: its loop starts
callback_read ==
    /\ pc = "idle"
    /\ ReadNext(1)
    /\ influxdb' = <<>>
    /\ lastInit' = NoInit
    /\ lastCall' = NoCall
    /\ UNCHANGED <<CONFIGS, SERVICE_ACTIONS, SERVICE_ACTIONS_AUTH, config_file, args, ret>>

\* callback_shutdown()
callback_shutdown ==
    /\ pc = "idle"
    /\ CONFIGS' = <<>>
    /\ Return("")
    /\ influxdb' = <<>>
    /\ lastInit' = NoInit
    /\ lastCall' = NoCall
    /\ UNCHANGED <<SERVICE_ACTIONS, SERVICE_ACTIONS_AUTH, config_file, args, ret>>

----------------------------------------------------------------------------
\* read() and _read_data()

\* A plausible slip: the segments are joined without the separator.
Join_NoSeparator(segments) ==
    IF segments = <<>> THEN ""
    ELSE IF Len(segments) = 1 THEN segments[1]
    ELSE segments[1] \o segments[2]

RECURSIVE Join(_)
\* '-'.join(segments)
Join(segments) ==
    IF segments = <<>> THEN ""
    ELSE IF Len(segments) = 1 THEN Head(segments)
    ELSE Head(segments) \o "-" \o Join(Tail(segments))

\* The parameters of the call: {index_field: index} or {}
Parameters(service_action, i) ==
    IF Truthy(service_action.index_field)
    THEN (service_action.index_field :> PyInt(i))
    ELSE <<>>

\* readings.update(parameters), done only for an action with an instance field
Updated(service_action, readings, parameters) ==
    IF Truthy(service_action.instance_field)
    THEN parameters @@ readings
    ELSE readings

\* A plausible slip: the instance field is left out of the identifier.
PluginInstance_BaseOnly(base, service_action, readings) == base

\* The instance identifier plugin_instance of one ReadingSet
PluginInstance(base, service_action, readings) ==
    LET segments ==
            IF Truthy(service_action.instance_field)
            THEN << base, service_action.instance_prefix \o
                          Format(readings[service_action.instance_field]) >>
            ELSE << base >>
    IN Join(SelectSeq(segments, LAMBDA seg : seg # ""))

\* The exception raised while the dict comprehension evaluates one item
ItemError(readings, arg) ==
    IF arg.key \notin DOMAIN readings THEN "KeyError"
    ELSE IF CONVERSION(arg.key, readings[arg.key]).kind = "ValueError"
    THEN "ValueError"
    ELSE ""

\* The first exception raised by the dict comprehension ("" if none)
FirstError(readings, arguments) ==
    IF \A j \in 1..Len(arguments) : ItemError(readings, arguments[j]) = "" THEN ""
    ELSE LET j == CHOOSE k \in 1..Len(arguments) :
                    /\ ItemError(readings, arguments[k]) # ""
                    /\ \A m \in 1..(k - 1) : ItemError(readings, arguments[m]) = ""
         IN ItemError(readings, arguments[j])

\* The dict built by the comprehension of _read_data:
\* {(plugin_instance, value_instance): (value_type, converted value)}.  A key
\* that occurs twice keeps its first place and its last value.
Points(plugin_instance, readings, arguments) ==
    LET name(j) == arguments[j].val.value_instance
        first(j) == \A m \in 1..(j - 1) : name(m) # name(j)
        last(j) == CHOOSE m \in j..Len(arguments) :
                        /\ name(m) = name(j)
                        /\ \A q \in (m + 1)..Len(arguments) : name(q) # name(j)
        firsts == SelectSeq([j \in 1..Len(arguments) |-> j], first)
        item(j) ==
            [key |-> <<plugin_instance, name(j)>>,
             val |-> <<arguments[j].val.value_type,
                       CONVERSION(arguments[j].key, readings[arguments[j].key])>>]
    IN [q \in 1..Len(firsts) |-> item(last(firsts[q]))]

\* A plausible slip: the index is never incremented.
NextIndex_Stays(i) == i

\* index += 1
NextIndex(i) == IF i < MaxIndex THEN i + 1 ELSE MaxIndex

\* A plausible slip: a value_instance that is already in fields keeps its
\* value.
Fields_KeepsFirst(fields, items) ==
    [t \in DOMAIN fields \cup {items[j].key[2] : j \in 1..Len(items)} |->
        IF t \in DOMAIN fields THEN fields[t]
        ELSE items[CHOOSE j \in 1..Len(items) :
                        /\ items[j].key[2] = t
                        /\ \A m \in 1..(j - 1) : items[m].key[2] # t].val[2]]

\* The loop of read() over values.items(): fields[value_instance] = value.
\* The last item of a value_instance is the one that stays.
Fields(fields, items) ==
    [s \in DOMAIN fields \cup {items[j].key[2] : j \in 1..Len(items)} |->
        IF \E j \in 1..Len(items) : items[j].key[2] = s
        THEN items[CHOOSE j \in 1..Len(items) :
                        /\ items[j].key[2] = s
                        /\ \A m \in (j + 1)..Len(items) : items[m].key[2] # s].val[2]
        ELSE fields[s]]

\* A plausible slip: both calls of _read_data are given self._fc.
Connection_AlwaysFc == CONFIGS[cur]._fc

\* The connection and the class attribute the running _read_data was given
Connection == IF phase = "nonauth" THEN CONFIGS[cur]._fc ELSE CONFIGS[cur]._fc_auth
ServiceActions == IF phase = "nonauth" THEN SERVICE_ACTIONS ELSE SERVICE_ACTIONS_AUTH

\* One iteration of the while loop of _read_data: one call_action and what
\* follows it, up to the next call.  XMLSyntaxError is caught by
\* callback_read; any other exception escapes it.
read_data_call ==
    /\ pc = "read"
    /\ Connection # None
    /\ pos <= Len(ServiceActions)
    /\ LET service_action == ServiceActions[pos].key
           arguments == ServiceActions[pos].val
           parameters == Parameters(service_action, index)
       IN
       /\ lastCall' = [made |-> TRUE, collector |-> cur, connection |-> Connection,
                       service_action |-> service_action, parameters |-> parameters,
                       pos |-> pos]
       /\ \E answer \in call_action(Connection, service_action, parameters) :
            IF answer.kind = "XMLSyntaxError" THEN
                /\ pc' = "reconnect"
                /\ CONFIGS' = IF phase = "nonauth"
                              THEN [CONFIGS EXCEPT ![cur]._fc.stale = TRUE]
                              ELSE [CONFIGS EXCEPT ![cur]._fc_auth.stale = TRUE]
                /\ NoFrame
                /\ UNCHANGED <<cur, exc>>
            ELSE IF answer.kind = "empty" THEN
                /\ CONFIGS' = CONFIGS
                /\ pos' = pos + 1
                /\ index' = 0
                /\ lastPoll' = [done |-> TRUE, service_action |-> service_action,
                                arguments |-> arguments, index |-> index,
                                last |-> "empty"]
                /\ tick' = ~tick
                /\ UNCHANGED <<pc, cur, exc, phase, values, read_values,
                               influx_data>>
            ELSE
                LET readings == Updated(service_action, answer.readings, parameters)
                    raised ==
                        IF /\ Truthy(service_action.instance_field)
                           /\ service_action.instance_field \notin DOMAIN readings
                        THEN "KeyError"
                        ELSE FirstError(readings, arguments)
                IN
                IF raised # "" THEN CONFIGS' = CONFIGS /\ Return(raised)
                ELSE
                    /\ CONFIGS' = CONFIGS
                    /\ \E points \in
                            {Points(PluginInstance(CONFIGS[cur]._plugin_instance,
                                                   service_action, readings),
                                    readings, arguments)} :
                          values' = DictUpdate(values, points)
                    /\ IF ~Truthy(service_action.index_field)
                       THEN /\ pos' = pos + 1
                            /\ index' = 0
                            /\ lastPoll' = [done |-> TRUE,
                                            service_action |-> service_action,
                                            arguments |-> arguments,
                                            index |-> index, last |-> "readings"]
                       ELSE /\ pos' = pos
                            /\ index' = NextIndex(index)
                            /\ lastPoll' = NoPoll
                    /\ tick' = ~tick
                    /\ UNCHANGED <<pc, cur, exc, phase, read_values, influx_data>>
    /\ UNCHANGED <<SERVICE_ACTIONS, SERVICE_ACTIONS_AUTH, influxdb, lastInit,
                   config_file, args, ret>>

\* A plausible slip: read() writes after each of the two polls.
read_nonauth_Writes ==
    /\ pc = "read"
    /\ phase = "nonauth"
    /\ Connection = None \/ pos > Len(ServiceActions)
    /\ read_values' = values
    /\ influx_data' = [influx_data EXCEPT !.fields = Fields(@, values)]
    /\ influxdb' = Append(influxdb, [collector |-> cur, point |-> influx_data'])
    /\ phase' = "auth"
    /\ pos' = 1
    /\ index' = 0
    /\ values' = <<>>
    /\ lastPoll' = NoPoll
    /\ lastCall' = NoCall
    /\ UNCHANGED <<CONFIGS, SERVICE_ACTIONS, SERVICE_ACTIONS_AUTH, pc, cur,
                   exc, lastInit, tick, config_file, args, ret>>

\* _read_data(self.SERVICE_ACTIONS, self._fc) returns and read() copies the
\* values into influx_data
read_nonauth ==
    /\ pc = "read"
    /\ phase = "nonauth"
    /\ Connection = None \/ pos > Len(ServiceActions)
    /\ read_values' = values
    /\ influx_data' = [influx_data EXCEPT !.fields = Fields(@, values)]
    /\ phase' = "auth"
    /\ pos' = 1
    /\ index' = 0
    /\ values' = <<>>
    /\ lastPoll' = NoPoll
    /\ lastCall' = NoCall
    /\ UNCHANGED <<CONFIGS, SERVICE_ACTIONS, SERVICE_ACTIONS_AUTH, pc, cur,
                   influxdb, exc, lastInit, tick, config_file, args, ret>>

\* _read_data(self.SERVICE_ACTIONS_AUTH, self._fc_auth) returns, read() copies
\* the values into influx_data and writes it to the sink; callback_read goes on
\* to the next collector
read_auth_write ==
    /\ pc = "read"
    /\ phase = "auth"
    /\ Connection = None \/ pos > Len(ServiceActions)
    /\ influxdb' = Append(influxdb,
            [collector |-> cur,
             point |-> [influx_data EXCEPT !.fields = Fields(@, values)]])
    /\ ReadNext(cur + 1)
    /\ lastCall' = NoCall
    /\ UNCHANGED <<CONFIGS, SERVICE_ACTIONS, SERVICE_ACTIONS_AUTH, lastInit,
                   config_file, args, ret>>

\* A plausible slip: the except clause only logs, and the loop goes on.
callback_read_NoReconnect ==
    /\ pc = "reconnect"
    /\ ReadNext(cur + 1)
    /\ lastCall' = NoCall
    /\ UNCHANGED <<CONFIGS, SERVICE_ACTIONS, SERVICE_ACTIONS_AUTH, influxdb,
                   lastInit, config_file, args, ret>>

\* The except clause of callback_read: config.init(), then the next collector
callback_read_reconnect ==
    /\ pc = "reconnect"
    /\ \E remote \in InitRemotes :
        LET r == init(CONFIGS[cur], SERVICE_ACTIONS, SERVICE_ACTIONS_AUTH,
                      remote) IN
        /\ DoInit(r)
        /\ IF r.raised # "" THEN Return(r.raised) ELSE ReadNext(cur + 1)
    /\ lastCall' = NoCall
    /\ UNCHANGED <<influxdb, config_file, args, ret>>

Next ==
    \/ callback_configure
    \/ callback_init
    \/ callback_init_step
    \/ callback_read
    \/ read_data_call
    \/ read_nonauth
    \/ read_auth_write
    \/ callback_read_reconnect
    \/ callback_shutdown

Spec == Init /\ [][Next]_vars

----------------------------------------------------------------------------
\* The functions of the module, each called on its own with arguments drawn
\* from small sets

\* Actions with and without an instance field; in the second the instance
\* field is not the index field
NamingActions ==
    { SERVICE_ACTIONS_AUTH_0[2].key,
      ServiceAction("X_AVM-DE_Homeauto:1", "GetGenericDeviceInfos",
                    "NewIndex", "NewAIN", "dect"),
      ServiceAction("X_AVM-DE_Homeauto:1", "GetGenericDeviceInfos",
                    "NewIndex", "NewAIN", ""),
      SERVICE_ACTIONS_AUTH_0[3].key }

NamingReadings ==
    { ("NewAIN" :> PyStr("11630")) @@ ("NewSwitchState" :> PyStr("ON")),
      ("NewAIN" :> PyStr("")) @@ ("NewSwitchState" :> PyStr("ON")),
      ("NewAIN" :> PyInt(7)) @@ ("NewIndex" :> PyInt(0)) }

NamingArgs ==
    { [fn |-> "PluginInstance", base |-> b, service_action |-> sa,
       readings |-> r, index |-> i] :
        b \in {"", "house"}, sa \in NamingActions, r \in NamingReadings,
        i \in 0..MaxName }

\* The names CONVERSION is looked up by: the output fields of both schemas
\* and a name that differs from a registered one in case only
ArgumentNames ==
    UNION { {SERVICE_ACTIONS_0[j].val[m].key : m \in 1..Len(SERVICE_ACTIONS_0[j].val)} :
            j \in 1..Len(SERVICE_ACTIONS_0) } \cup
    UNION { {SERVICE_ACTIONS_AUTH_0[j].val[m].key :
                m \in 1..Len(SERVICE_ACTIONS_AUTH_0[j].val)} :
            j \in 1..Len(SERVICE_ACTIONS_AUTH_0) } \cup
    {"newconnectionstatus"}

RawValues ==
    { PyStr(t) : t \in {"Connected", "Disconnected", "Up", "Down", "ON", "OFF",
                        "on", "215", "abc", ""} } \cup
    { PyInt(n) : n \in {0, 1, 100, MaxRaw} }

ConversionArgs ==
    { [fn |-> "CONVERSION", action_argument |-> a, x |-> x] :
        a \in ArgumentNames, x \in RawValues }

FilterArgs ==
    { [fn |-> "_filter_service_actions", service_actions |-> sa,
       actionnames |-> an] :
        sa \in {SERVICE_ACTIONS_0, SERVICE_ACTIONS_AUTH_0, <<>>},
        an \in SUBSET AllPairs }

\* The module is loaded and one function is about to be called
FnInit ==
    /\ CONFIGS = <<>>
    /\ SERVICE_ACTIONS = SERVICE_ACTIONS_0
    /\ SERVICE_ACTIONS_AUTH = SERVICE_ACTIONS_AUTH_0
    /\ pc = "boot"
    /\ cur = 0
    /\ phase = ""
    /\ pos = 0
    /\ index = 0
    /\ values = <<>>
    /\ read_values = <<>>
    /\ influx_data = NoData
    /\ influxdb = <<>>
    /\ exc = ""
    /\ lastInit = NoInit
    /\ lastCall = NoCall
    /\ lastPoll = NoPoll
    /\ tick = FALSE
    /\ config_file = NoFile
    /\ args \in NamingArgs \cup ConversionArgs \cup FilterArgs
    /\ ret = NoRet

\* The function returns value; nothing else changes
Returns(value) ==
    /\ ~ret.done
    /\ ret' = [done |-> TRUE, value |-> value]
    /\ UNCHANGED <<CONFIGS, SERVICE_ACTIONS, SERVICE_ACTIONS_AUTH, pc, cur, phase,
                   pos, index, values, read_values, influx_data, influxdb, exc,
                   lastInit, lastCall, lastPoll, tick, config_file, args>>

\* The instance naming of _read_data for one ReadingSet
Call_PluginInstance ==
    /\ args.fn = "PluginInstance"
    /\ LET parameters == Parameters(args.service_action, args.index)
           readings == Updated(args.service_action, args.readings, parameters)
       IN Returns(PluginInstance(args.base, args.service_action, readings))

\* self.CONVERSION.get(action_argument, lambda x: x)(x)
Call_CONVERSION ==
    /\ args.fn = "CONVERSION"
    /\ Returns(CONVERSION(args.action_argument, args.x))

\* cls._filter_service_actions(service_actions, actionnames)
Call_filter_service_actions ==
    /\ args.fn = "_filter_service_actions"
    /\ Returns(_filter_service_actions(args.service_actions, args.actionnames))

FnNext ==
    \/ Call_PluginInstance
    \/ Call_CONVERSION
    \/ Call_filter_service_actions

FnSpec == FnInit /\ [][FnNext]_vars

----------------------------------------------------------------------------
\* Properties

\* C1: _read_data never calls, on a connection, a (service, action) pair that
\* the connection does not advertise in actionnames.
C1_OnlyAdvertisedCalled ==
    lastCall.made =>
        Pair(lastCall.service_action) \in lastCall.connection.actionnames

\* The points of values that belong to the action whose enumeration ended last
PollKeys ==
    LET suffixes == {lastPoll.arguments[j].val.value_instance :
                        j \in 1..Len(lastPoll.arguments)}
    IN {k \in DictKeys(values) : k[2] \in suffixes}

\* The enumeration of an indexed action has just ended on an empty ReadingSet
\* at index N, after N non-empty ones
IndexedPollEnded(N) ==
    /\ lastPoll.done
    /\ Truthy(lastPoll.service_action.index_field)
    /\ lastPoll.last = "empty"
    /\ lastPoll.index = N

Enumerating ==
    /\ pc = "read"
    /\ Connection # None
    /\ pos <= Len(ServiceActions)
    /\ Truthy(ServiceActions[pos].key.index_field)

\* One callback_read after another, on one collector that callback_configure
\* created and callback_init initialized without failure.
PollInit ==
    /\ \E node \in {node1, node2}, remote \in InitRemotes :
        LET r == init(FritzCollectd(node), SERVICE_ACTIONS_0,
                      SERVICE_ACTIONS_AUTH_0, remote) IN
        /\ r.raised = ""
        /\ CONFIGS = <<r.self>>
        /\ SERVICE_ACTIONS = r.sa
        /\ SERVICE_ACTIONS_AUTH = r.sa_auth
    /\ pc = "idle"
    /\ cur = 0
    /\ phase = ""
    /\ pos = 0
    /\ index = 0
    /\ values = <<>>
    /\ read_values = <<>>
    /\ influx_data = NoData
    /\ influxdb = <<>>
    /\ exc = ""
    /\ lastInit = NoInit
    /\ lastCall = NoCall
    /\ lastPoll = NoPoll
    /\ tick = FALSE
    /\ config_file = [read |-> TRUE, exists |-> TRUE, json |-> TRUE]
    /\ args = NoArgs
    /\ ret = NoRet

PollNext ==
    \/ callback_read
    \/ read_data_call
    \/ read_nonauth
    \/ read_auth_write

\* The interpreter goes on to the next statement: a running read() keeps
\* running, and the host calls callback_read again when it has returned.
PollSpec == PollInit /\ [][PollNext]_vars /\ WF_vars(PollNext)

\* C3: the enumeration of an indexed action ends after finitely many remote
\* calls, whatever the remote answers.
C3_EnumerationEnds == Enumerating ~> ~Enumerating

\* A step of read() that writes influx_data to the sink
Writes == Len(influxdb') = Len(influxdb) + 1

\* The dict keys of the two mappings _read_data returned to the running read()
NonAuthKeys == DictKeys(read_values)
AuthKeys == DictKeys(values)

\* C4: the batch written by read() holds one entry per (instance, suffix) key
\* of the two mappings: with disjoint keys, as many entries as both together.
C4_BatchHoldsEveryKey ==
    [][ (Writes /\ NonAuthKeys \cap AuthKeys = {}) =>
            Cardinality(DOMAIN influxdb'[Len(influxdb')].point.fields) =
                Cardinality(NonAuthKeys) + Cardinality(AuthKeys) ]_vars

\* A step that runs init() on CONFIGS[cur]
InitStep == pc \in {"init", "reconnect"} /\ lastInit'.called

\* C5: init() on one collector leaves alone the schema entries that another
\* collector polls on its live connections.
C5_InitLeavesOtherSchemas ==
    [][ InitStep =>
            \A j \in 1..Len(CONFIGS) :
                j # cur =>
                    /\ CONFIGS[j]._fc # None =>
                            SERVICE_ACTIONS' = SERVICE_ACTIONS
                    /\ CONFIGS[j]._fc_auth # None =>
                            SERVICE_ACTIONS_AUTH' = SERVICE_ACTIONS_AUTH ]_vars

\* The ways init() fails that the documentation names
InitFailures == {"Unreachable", "UnsupportedBaseline", "AuthenticationFailure"}

\* C6: after an init() that failed, the collector holds no live connection.
C6_FailedInitHoldsNothing ==
    (lastInit.called /\ lastInit.outcome \in InitFailures) =>
        /\ CONFIGS[lastInit.collector]._fc = None
        /\ CONFIGS[lastInit.collector]._fc_auth = None

\* C7: with a password configured, an authenticated probe that raises
\* XMLSyntaxError makes init() raise IOError and drop both connections.
C7_AuthFailureIsFatal ==
    (lastInit.called /\ lastInit.outcome = "AuthenticationFailure") =>
        /\ CONFIGS[lastInit.collector]._fritz_password # ""
        /\ lastInit.raised = "IOError"
        /\ exc = "IOError"
        /\ CONFIGS[lastInit.collector]._fc = None
        /\ CONFIGS[lastInit.collector]._fc_auth = None

C7_Witness ==
    /\ lastInit.called
    /\ lastInit.outcome = "AuthenticationFailure"
    /\ lastInit.reinit

NoPassword(i) == CONFIGS[i]._fritz_password = ""

\* The output suffixes (value_instance) of the non-authenticated schema
NonAuthSuffixes ==
    UNION { {SERVICE_ACTIONS_0[j].val[m].val.value_instance :
                m \in 1..Len(SERVICE_ACTIONS_0[j].val)} :
            j \in 1..Len(SERVICE_ACTIONS_0) }

\* C8: a collector without password never holds an authenticated connection,
\* _read_data calls for it only operations of the non-authenticated schema on
\* a connection opened without password, and each batch it writes holds only
\* outputs of the non-authenticated schema under the configured host.
C8_NoPasswordNoAuth ==
    /\ \A i \in 1..Len(CONFIGS) : NoPassword(i) => CONFIGS[i]._fc_auth = None
    /\ (lastCall.made /\ NoPassword(lastCall.collector)) =>
            /\ \E j \in 1..Len(SERVICE_ACTIONS_0) :
                    SERVICE_ACTIONS_0[j].key = lastCall.service_action
            /\ lastCall.connection.password = ""
    /\ \A b \in 1..Len(influxdb) :
            NoPassword(influxdb[b].collector) =>
                /\ DOMAIN influxdb[b].point.fields \subseteq NonAuthSuffixes
                /\ influxdb[b].point.host =
                        CONFIGS[influxdb[b].collector]._fritz_hostname

C8_Witness ==
    /\ Len(CONFIGS) = 2
    /\ CONFIGS[2]._fc_auth # None
    /\ \E b \in 1..Len(influxdb) :
            /\ NoPassword(influxdb[b].collector)
            /\ DOMAIN influxdb[b].point.fields # {}

\* A connection that has not raised XMLSyntaxError
Fresh(connection) == connection # None /\ ~connection.stale

\* A call_action of _read_data raises XMLSyntaxError
ReadFails == pc = "read" /\ CONFIGS' # CONFIGS

\* C9: when read() of a collector fails with XMLSyntaxError, callback_read
\* runs init() on that collector next, does not read it again in the cycle,
\* and an init() that succeeds leaves fresh connections in the collector; no
\* step of another collector touches them, and each read() starts from an
\* empty batch.
C9_ReconnectBeforeNextRead ==
    [][ /\ ReadFails =>
                /\ pc' = "reconnect"
                /\ cur' = cur
                /\ influxdb' = influxdb
        /\ pc = "reconnect" =>
                /\ lastInit'.called
                /\ lastInit'.reinit
                /\ lastInit'.collector = cur
                /\ pc' = "read" => cur' = cur + 1
                /\ lastInit'.raised = "" =>
                        /\ Fresh(CONFIGS'[cur]._fc)
                        /\ ~NoPassword(cur) => Fresh(CONFIGS'[cur]._fc_auth)
                        /\ pc' = "read" \/ cur = Len(CONFIGS)
        /\ \A i \in 1..Len(CONFIGS) :
                (i # cur /\ Len(CONFIGS') = Len(CONFIGS)) =>
                    CONFIGS'[i] = CONFIGS[i]
        /\ (pc' = "read" /\ (pc # "read" \/ cur' # cur)) =>
                /\ influx_data'.fields = <<>>
                /\ values' = <<>>
      ]_vars

C9_Witness ==
    /\ lastInit.called
    /\ lastInit.reinit
    /\ lastInit.raised = ""
    /\ lastInit.collector = 1
    /\ Fresh(CONFIGS[1]._fc)
    /\ pc = "read"
    /\ cur = 2

\* C10: when the reconnect after a failed read() finds the device
\* unreachable, no exception escapes callback_read and the collectors that
\* follow are still read in that cycle.
C10_ReconnectFailureContained ==
    (lastInit.called /\ lastInit.reinit /\ lastInit.outcome = "Unreachable") =>
        /\ exc = ""
        /\ lastInit.collector < Len(CONFIGS) =>
                \/ pc = "read" /\ cur > lastInit.collector
                \/ \E b \in 1..Len(influxdb) :
                        influxdb[b].collector > lastInit.collector

\* C11: a raw value outside the domain of its conversion costs only its own
\* point: no ValueError of a conversion leaves callback_read, so the cycle
\* goes on and its batch is written.
C11_ConversionErrorIsolated == exc # "ValueError"

\* C18: an output field of the schema that the ReadingSet lacks costs only
\* its own point: no KeyError of the lookup leaves callback_read, so the poll
\* of the other fields, indexes and actions goes on.
C18_MissingFieldSkipped == exc # "KeyError"

\* A value as str.format shows it
Shown(v) == IF v.kind = "str" THEN v.s ELSE ToString(v.n)

\* C12: the instance identifier is the base instance and the segment
\* prefix + instance-field value, the empty ones left out, joined by '-'.
\* The second segment exists only for an action with an instance field, and
\* its value is the enumeration index when the instance field is the index
\* field.  'house', 'dect', 7 give 'house-dect7'; an empty base gives 'dect7';
\* an empty base and no instance field give ''.
C12_InstanceIdentifier ==
    (args.fn = "PluginInstance" /\ ret.done) =>
        LET sa == args.service_action
            value == IF sa.instance_field = sa.index_field
                     THEN PyInt(args.index)
                     ELSE args.readings[sa.instance_field]
            second == sa.instance_prefix \o Shown(value)
            dect7 == /\ sa.instance_field = "NewIndex"
                     /\ sa.instance_prefix = "dect"
                     /\ args.index = 7
        IN /\ sa.instance_field = "None" => ret.value = args.base
           /\ (sa.instance_field # "None" /\ args.base = "") => ret.value = second
           /\ (sa.instance_field # "None" /\ args.base # "" /\ second = "") =>
                    ret.value = args.base
           /\ (sa.instance_field # "None" /\ args.base # "" /\ second # "") =>
                    ret.value = args.base \o "-" \o second
           /\ (dect7 /\ args.base = "house") => ret.value = "house-dect7"
           /\ (dect7 /\ args.base = "") => ret.value = "dect7"
           /\ (sa.instance_field = "None" /\ args.base = "") => ret.value = ""

C12_Witness ==
    /\ args.fn = "PluginInstance"
    /\ ret.done
    /\ args.base = "house"
    /\ args.index = 7
    /\ ret.value = "house-dect7"

\* The output names with a registered conversion
Registered ==
    {"NewPhysicalLinkStatus", "NewConnectionStatus", "NewByteSendRate",
     "NewByteReceiveRate", "NewTemperatureCelsius", "NewSwitchState",
     "NewMultimeterEnergy", "NewMultimeterPower"}

\* 1 if x is the str t, otherwise 0
Flag(x, t) == PyInt(IF x = PyStr(t) THEN 1 ELSE 0)

\* C13: the conversion is looked up by the exact output name.
\* NewConnectionStatus is 1 for 'Connected' and otherwise 0,
\* NewPhysicalLinkStatus is 1 for 'Up' and otherwise 0, NewSwitchState is 1
\* for 'ON' and otherwise 0, the two byte rates are 8 * x for an integer x
\* (100 gives 800), and a name without registered conversion gives x itself.
C13_ConversionTable ==
    (args.fn = "CONVERSION" /\ ret.done) =>
        LET a == args.action_argument
            x == args.x
        IN /\ a = "NewConnectionStatus" => ret.value = Flag(x, "Connected")
           /\ a = "NewPhysicalLinkStatus" => ret.value = Flag(x, "Up")
           /\ a = "NewSwitchState" => ret.value = Flag(x, "ON")
           /\ (a \in {"NewByteSendRate", "NewByteReceiveRate"} /\ x.kind = "int") =>
                    ret.value = PyInt(8 * x.n)
           /\ (a = "NewByteSendRate" /\ x = PyInt(100)) => ret.value = PyInt(800)
           /\ (a = "NewConnectionStatus" /\ x = PyStr("Disconnected")) =>
                    ret.value = PyInt(0)
           /\ a \notin Registered => ret.value = x

C13_Witness ==
    /\ args.fn = "CONVERSION"
    /\ ret.done
    /\ args.action_argument = "NewConnectionStatus"
    /\ args.x = PyStr("Disconnected")
    /\ ret.value = PyInt(0)

\* C14: the filter leaves exactly the entries of the schema whose (service,
\* action) pair is advertised, in their order and with their output mappings;
\* with no entry advertised it leaves the empty schema.
C14_FilterKeepsAdvertised ==
    (args.fn = "_filter_service_actions" /\ ret.done) =>
        LET sa == args.service_actions
            kept == {j \in 1..Len(sa) : Pair(sa[j].key) \in args.actionnames}
        IN /\ Len(ret.value) = Cardinality(kept)
           /\ \A j \in kept :
                ret.value[Cardinality({m \in kept : m <= j})] = sa[j]
           /\ kept = {} => ret.value = <<>>

C14_Witness ==
    /\ args.fn = "_filter_service_actions"
    /\ ret.done
    /\ Len(args.service_actions) = 3
    /\ ret.value = <<args.service_actions[1], args.service_actions[3]>>

\* The output suffixes of a mapping _read_data returned, and the value of the
\* last item of the mapping with suffix t
Suffixes(items) == {items[j].key[2] : j \in 1..Len(items)}
LastValue(items, t) ==
    LET j == CHOOSE k \in 1..Len(items) :
                /\ items[k].key[2] = t
                /\ \A m \in (k + 1)..Len(items) : items[m].key[2] # t
    IN items[j].val[2]

C16_AbsentConfigIsEmpty ==
    (config_file.read /\ ~config_file.exists) => exc # "TypeError"

\* C17: read() writes once, when both polls have ended.  A step writes only
\* as the last step of the read() of CONFIGS[cur], which has written nothing
\* before; a read() that ends without exception ends by that write; while a
\* read() runs and after XMLSyntaxError has aborted it, the sink holds no
\* batch of its collector.
C17_OneWritePerRead ==
    [][ /\ Writes =>
                /\ pc = "read" /\ phase = "auth"
                /\ CONFIGS[cur]._fc_auth = None \/ pos > Len(SERVICE_ACTIONS_AUTH)
                /\ influxdb'[Len(influxdb')].collector = cur
                /\ \A b \in 1..Len(influxdb) : influxdb[b].collector < cur
                /\ pc' = "idle" \/ cur' = cur + 1
        /\ ~Writes => (influxdb' = influxdb \/ influxdb' = <<>>)
        /\ (pc = "read" /\ pc' = "read" /\ cur' # cur) => Writes
        /\ (pc = "read" /\ pc' = "idle" /\ exc' = "") => Writes
        /\ pc' \in {"read", "reconnect"} =>
                \A b \in 1..Len(influxdb') : influxdb'[b].collector < cur'
        /\ (pc = "read" /\ pc' = "reconnect") => influxdb' = influxdb
      ]_vars

\* The read() of collector 1 has written and the read() of collector 2 was
\* aborted by XMLSyntaxError during its second poll.
C17_Witness ==
    /\ pc = "reconnect"
    /\ cur = 2
    /\ Len(influxdb) = 1
    /\ influxdb[1].collector = 1
    /\ lastCall.made
    /\ lastCall.connection.password # ""

\* A step in which _read_data calls call_action
CallStep == pc = "read" /\ lastCall'.made

\* A step within one poll: the same _read_data is running before and after
SamePoll == pc = "read" /\ pc' = "read" /\ cur' = cur /\ phase' = phase

\* C19: a poll calls the entries of the schema in their order, each at least
\* once whatever the earlier ones answered: a poll starts at the first entry,
\* moves from an entry only to the next one and only by a call of that entry,
\* and ends only behind the last entry.  An entry without index field is
\* called once, without parameter; an entry with index field is called with
\* the indexes 0, 1, 2, ... in turn and left at the first empty ReadingSet.
C19_SchemaOrder ==
    [][ /\ CallStep =>
                LET service_action == ServiceActions[pos].key IN
                /\ lastCall'.pos = pos
                /\ lastCall'.service_action = service_action
                /\ lastCall'.parameters =
                        IF service_action.index_field = "None" THEN <<>>
                        ELSE (service_action.index_field :> PyInt(index))
        /\ (pc' = "read" /\ ~SamePoll) => (pos' = 1 /\ index' = 0)
        /\ SamePoll =>
                /\ CallStep
                /\ \/ /\ pos' = pos + 1
                      /\ index' = 0
                      /\ lastPoll'.done
                      /\ lastPoll'.index = index
                      /\ ServiceActions[pos].key.index_field = "None" =>
                            index = 0
                   \/ /\ pos' = pos
                      /\ ServiceActions[pos].key.index_field # "None"
                      /\ ~lastPoll'.done
                      /\ index < MaxIndex => index' = index + 1
        /\ (SamePoll /\ lastPoll'.done /\ lastPoll'.last = "empty") =>
                pos' = pos + 1
        /\ (pc = "read" /\ ~CallStep /\ pc' # "reconnect") =>
                (Connection = None \/ pos > Len(ServiceActions))
      ]_vars

\* The authenticated poll: GetStatistics answered empty, then
\* GetGenericDeviceInfos was called with the indexes 0, 1 and 2 and answered
\* empty at index 2.
C19_Witness ==
    /\ pc = "read"
    /\ phase = "auth"
    /\ pos = 3
    /\ lastCall.made
    /\ lastCall.pos = 2
    /\ lastCall.service_action.action = "GetGenericDeviceInfos"
    /\ lastCall.parameters = ("NewIndex" :> PyInt(2))
    /\ lastPoll.done
    /\ lastPoll.last = "empty"
    /\ Len(values) = 8
    /\ \A k \in DictKeys(values) : k[2] # "lan_totalbytessent"

\* The collector being read holds no connection
NoLive == pc = "read" /\ CONFIGS[cur]._fc = None /\ CONFIGS[cur]._fc_auth = None

\* C20: read() of a collector without connection calls no call_action and
\* writes one batch without fields under the configured host; callback_read
\* with no collector left (after callback_shutdown) calls no call_action and
\* writes nothing.
C20_NoConnectionNoCall ==
    [][ /\ NoLive =>
                /\ ~lastCall'.made
                /\ exc' = ""
                /\ phase = "nonauth" => (pc' = "read" /\ phase' = "auth" /\ ~Writes)
                /\ phase = "auth" =>
                        /\ Writes
                        /\ influxdb'[Len(influxdb')].collector = cur
                        /\ DOMAIN influxdb'[Len(influxdb')].point.fields = {}
                        /\ influxdb'[Len(influxdb')].point.host =
                                CONFIGS[cur]._fritz_hostname
        /\ (pc = "idle" /\ CONFIGS' # CONFIGS) => CONFIGS' = <<>>
        /\ (pc = "idle" /\ CONFIGS = <<>>) =>
                /\ pc' = "idle"
                /\ ~lastCall'.made
                /\ influxdb' = <<>>
      ]_vars

\* A collector without connection has been read: one batch without fields
\* under its host
C20_Witness ==
    /\ pc = "idle"
    /\ Len(CONFIGS) = 1
    /\ CONFIGS[1]._fc = None
    /\ CONFIGS[1]._fc_auth = None
    /\ Len(influxdb) = 1
    /\ DOMAIN influxdb[1].point.fields = {}
    /\ influxdb[1].point.host = "box2"

====
